---- MODULE Spec2Model ----
(***************************************************************************)
(* NovelAgent (generate.mjs): canvas normalisation, payload assembly, mask  *)
(* creation, image analysis and the control flow of one CLI run, as a      *)
(* state machine.                                                          *)
(*                                                                         *)
(* Conventions of the model                                                *)
(*  - a JavaScript value is a tagged record: NULL, UNDEF, NaN, Num(n),     *)
(*    Big(hi, lo) (an integer >= 2^31, in two base-2^16 limbs), Str(s),    *)
(*    Bool is a TLA+ BOOLEAN;                                              *)
(*  - fractional scalars (strengths, noise, magnitude, upscale) are held   *)
(*    in thousandths: 0.6 is Num(600); pixel sizes are held in pixels;     *)
(*  - an IEEE-754 double used by the canvas selection is a fixed-point     *)
(*    number of IntBits + FracBits bits, rounded to 53 significant bits    *)
(*    after every operation, as the hardware does.                         *)
(***************************************************************************)
EXTENDS Integers, Sequences, FiniteSets, TLC

\* ------------------------------------------------------------------------
\* Bounds of the model
\* ------------------------------------------------------------------------
MaxDim == 20
MaxVibes == 17
MaxCanvas == 3

\* ------------------------------------------------------------------------
\* JavaScript values
\* ------------------------------------------------------------------------
NULL == [t |-> "null"]
UNDEF == [t |-> "undefined"]
NaN == [t |-> "nan"]
Num(n) == [t |-> "num", n |-> n]
Big(hi, lo) == [t |-> "big", hi |-> hi, lo |-> lo]
Str(s) == [t |-> "str", s |-> s]

IsNullish(v) == v.t \in {"null", "undefined"}

\* JavaScript truthiness of a value (null, undefined, NaN, 0 and "" are falsy)
Truthy(v) ==
    CASE v.t = "null" -> FALSE
      [] v.t = "undefined" -> FALSE
      [] v.t = "nan" -> FALSE
      [] v.t = "num" -> v.n # 0
      [] v.t = "str" -> v.s # ""
      [] OTHER -> TRUE

\* a ?? b
Coalesce(a, b) == IF IsNullish(a) THEN b ELSE a

\* a || b
OrElse(a, b) == IF Truthy(a) THEN a ELSE b

\* ------------------------------------------------------------------------
\* IEEE-754 doubles as fixed-point numbers: NLimbs limbs of LimbBits bits,
\* most significant first, IntBits integer bits and FracBits fractional bits.
\* Exact for the doubles between 2^-7 and 2^5 that the canvas selection meets.
\* ------------------------------------------------------------------------
IntBits == 5
LimbBits == 13
NLimbs == 5
LimbBase == 8192
NBits == NLimbs * LimbBits
FracBits == NBits - IntBits
Mantissa == 53

ZeroBits == [j \in 1..NLimbs |-> 0]

\* bit i (1 = most significant) of the number b
Bit(b, i) ==
    (b[((i - 1) \div LimbBits) + 1] \div (2^(LimbBits - 1 - ((i - 1) % LimbBits)))) % 2

\* index of the first bit holding a 1, or NBits + 1 when the value is zero
LeadingOne(b) ==
    IF \A j \in 1..NLimbs : b[j] = 0 THEN NBits + 1
    ELSE LET j == CHOOSE m \in 1..NLimbs :
                      b[m] # 0 /\ \A n \in 1..(m-1) : b[n] = 0
             k == CHOOSE m \in 1..LimbBits : b[j] \div (2^(LimbBits - m)) = 1
         IN LimbBits * (j - 1) + k

\* b + unit added to limb li; the carry reaches limb j when limb li overflows
\* and every limb between j and li is full
AddUlp(b, li, unit) ==
    LET carry(j) == /\ b[li] + unit >= LimbBase
                    /\ \A m \in (j+1)..(li-1) : b[m] = LimbBase - 1
    IN [j \in 1..NLimbs |->
            IF j > li THEN b[j]
            ELSE IF j = li THEN (b[j] + unit) % LimbBase
            ELSE (b[j] + (IF carry(j) THEN 1 ELSE 0)) % LimbBase]

\* round-to-nearest, ties-to-even, to Mantissa significant bits; sticky says
\* that the exact value has non-zero bits beyond bit NBits
Round53(b, sticky) ==
    LET p == LeadingOne(b)
        last == p + Mantissa - 1
        li == ((last - 1) \div LimbBits) + 1
        unit == 2^(LimbBits * li - last)
    IN IF last >= NBits THEN b
       ELSE LET guard == Bit(b, last + 1)
                rest == sticky \/ \E i \in (last+2)..NBits : Bit(b, i) = 1
                trunc == [j \in 1..NLimbs |->
                             IF j < li THEN b[j]
                             ELSE IF j = li THEN (b[j] \div unit) * unit
                             ELSE 0]
                up == guard = 1 /\ (rest \/ Bit(b, last) = 1)
            IN IF up THEN AddUlp(trunc, li, unit) ELSE trunc

\* the double nearest to w / h (w, h positive integers, 2^-7 <= w / h < 2^5):
\* long division, one limb at a time
FDiv(w, h) ==
    LET rem[j \in 1..NLimbs] ==
            IF j = 1 THEN (w * (2^(LimbBits - IntBits))) % h
            ELSE (rem[j-1] * LimbBase) % h
        q == [j \in 1..NLimbs |->
                 IF j = 1 THEN (w * (2^(LimbBits - IntBits))) \div h
                 ELSE (rem[j-1] * LimbBase) \div h]
    IN Round53(q, rem[NLimbs] # 0)

\* a < b on doubles
FLess(a, b) ==
    \E j \in 1..NLimbs : a[j] < b[j] /\ \A m \in 1..(j-1) : a[m] = b[m]

\* the double nearest to |a - b|; limb j lends to limb j + 1 when the limbs
\* below j of the larger operand are below those of the smaller
FAbsDiff(a, b) ==
    LET hi == IF FLess(a, b) THEN b ELSE a
        lo == IF FLess(a, b) THEN a ELSE b
        borrow(j) == \E m \in (j+1)..NLimbs :
                        hi[m] < lo[m] /\ \A k \in (j+1)..(m-1) : hi[k] = lo[k]
        d == [j \in 1..NLimbs |->
                (hi[j] - lo[j] - (IF borrow(j) THEN 1 ELSE 0) + LimbBase) % LimbBase]
    IN Round53(d, FALSE)

\* ------------------------------------------------------------------------
\* Canvas normaliser
\* ------------------------------------------------------------------------
LARGE_RESOLUTIONS ==
    << [w |-> 1024, h |-> 1536, label |-> "portrait"],
       [w |-> 1472, h |-> 1472, label |-> "square"],
       [w |-> 1536, h |-> 1024, label |-> "landscape"] >>

\* the loop of prepareReferenceImage: state after the first k canvases
RECURSIVE SelectLoop(_, _)
SelectLoop(aspect, k) ==
    IF k = 0
    THEN [best |-> LARGE_RESOLUTIONS[1], inf |-> TRUE, bestDiff |-> ZeroBits]
    ELSE LET prev == SelectLoop(aspect, k - 1)
             res == LARGE_RESOLUTIONS[k]
             diff == FAbsDiff(aspect, FDiv(res.w, res.h))
         IN IF prev.inf \/ FLess(diff, prev.bestDiff)
            THEN [best |-> res, inf |-> FALSE, bestDiff |-> diff]
            ELSE prev

SelectCanvas(width, height) ==
    SelectLoop(FDiv(width, height), Len(LARGE_RESOLUTIONS)).best

\* round(a / b) for positive integers (sharp rounds the scaled side)
RoundDiv(a, b) == (2 * a + b) \div (2 * b)

\* sharp(...).resize(W, H, {fit}): "contain" letterboxes to exactly W x H,
\* "inside" keeps the aspect ratio and returns the scaled image unpadded
Resize(img, W, H, fit) ==
    IF fit = "contain"
    THEN [w |-> W, h |-> H]
    ELSE IF img.w * H <= img.h * W
         THEN [w |-> IF RoundDiv(img.w * H, img.h) = 0 THEN 1
                     ELSE RoundDiv(img.w * H, img.h), h |-> H]
         ELSE [w |-> W, h |-> IF RoundDiv(img.h * W, img.w) = 0 THEN 1
                              ELSE RoundDiv(img.h * W, img.w)]

\* prepareReferenceImage, mutated: resized without letterboxing
prepareReferenceImage_inside(src, meta) ==
    LET best == SelectCanvas(meta.w, meta.h)
        out == Resize(meta, best.w, best.h, "inside")
    IN [t |-> "img", src |-> src, canvas |-> best.label, w |-> out.w, h |-> out.h]

\* prepareReferenceImage, mutated: the canvas of a file named like a mask is
\* the square one
prepareReferenceImage_named(src, meta) ==
    LET best == IF src = "mask.png" THEN LARGE_RESOLUTIONS[2]
                ELSE SelectCanvas(meta.w, meta.h)
        out == Resize(meta, best.w, best.h, "contain")
    IN [t |-> "img", src |-> src, canvas |-> best.label, w |-> out.w, h |-> out.h]

\* prepareReferenceImage(imagePath): meta is the decoded metadata of the file
prepareReferenceImage(src, meta) ==
    LET best == SelectCanvas(meta.w, meta.h)
        out == Resize(meta, best.w, best.h, "contain")
    IN [t |-> "img", src |-> src, canvas |-> best.label, w |-> out.w, h |-> out.h]

\* ------------------------------------------------------------------------
\* JavaScript arithmetic on values (NaN propagates, comparisons with NaN fail)
\* ------------------------------------------------------------------------
IsNum(v) == v.t = "num"

\* a > b, b a plain integer
JGt(a, b) == IsNum(a) /\ a.n > b

\* a * b on two pixel counts
JMul(a, b) == IF IsNum(a) /\ IsNum(b) THEN Num(a.n * b.n) ELSE NaN

\* a * b, b a scalar held in thousandths
JScale(a, b) == IF IsNum(a) /\ IsNum(b) THEN Num((a.n * b.n) \div 1000) ELSE NaN

\* Math.min(a, b)
JMin(a, b) ==
    IF IsNum(a) /\ IsNum(b) THEN (IF a.n <= b.n THEN a ELSE b) ELSE NaN

\* +token: a numeric token converts to its number, "" to 0, any other text
\* and a missing token (undefined) to NaN
ToNumber(tok) ==
    CASE tok.t = "num" -> tok
      [] tok.t = "str" -> IF tok.s = "" THEN Num(0) ELSE NaN
      [] OTHER -> NaN

\* a piece of text that is not a number, as in --width abc
BadNumber == Str("abc")

\* Math.floor(r * 2 ** 32): r = Math.random() is a binary fraction whose
\* first 32 bits are the limbs hi, lo and whose lower bits are zero iff
\* rest = 0
FloorMul32(r) ==
    IF r.hi < 32768 THEN Num(r.hi * 65536 + r.lo) ELSE Big(r.hi, r.lo)

\* ------------------------------------------------------------------------
\* CLI argument parser
\* ------------------------------------------------------------------------
ACTION_NAMES == {"generate", "vibe", "enhance", "inpaint", "director", "mask", "analyze"}
DIRECTOR_TOOLS == {"bg-removal", "line-art", "sketch", "colorize", "emotion", "declutter"}

\* an option that does not occur on the command line
ABSENT == [t |-> "absent"]

Opt(tok, default) == IF tok = ABSENT THEN default ELSE tok
OptNum(tok, default) == IF tok = ABSENT THEN default ELSE ToNumber(tok)

\* parseArgs(): cl gives, per option, the token that follows its last
\* occurrence (ABSENT when the option does not occur), the tokens of the
\* repeatable options in order, and whether each flag occurs
parseArgs(cl) ==
    [ action |-> IF cl.action \in ACTION_NAMES THEN cl.action ELSE "generate",
      directorTool |-> IF cl.action = "director" /\ cl.tool \in DIRECTOR_TOOLS
                       THEN Str(cl.tool) ELSE NULL,
      prompt |-> Opt(cl.prompt, NULL),
      negative |-> Opt(cl.negative, NULL),
      ref |-> Opt(cl.ref, NULL),
      refCaption |-> Opt(cl.refCaption, Str("character&style")),
      strength |-> OptNum(cl.strength, Num(1000)),
      fidelity |-> OptNum(cl.fidelity, Num(0)),
      infoExtracted |-> OptNum(cl.infoExtracted, Num(1000)),
      vibes |-> cl.vibes,
      vibeStrengths |-> [i \in 1..Len(cl.vibeStrengths) |-> ToNumber(cl.vibeStrengths[i])],
      vibeInfos |-> [i \in 1..Len(cl.vibeInfos) |-> ToNumber(cl.vibeInfos[i])],
      normalizeVibes |-> ~cl.noNormalizeVibes,
      image |-> Opt(cl.image, NULL),
      mask |-> Opt(cl.mask, NULL),
      regions |-> cl.regions,
      invertMask |-> cl.invertMask,
      detect |-> Opt(cl.detect, NULL),
      magnitude |-> OptNum(cl.magnitude, NULL),
      enhanceStrength |-> OptNum(cl.enhanceStrength, NULL),
      enhanceNoise |-> OptNum(cl.enhanceNoise, NULL),
      upscale |-> OptNum(cl.upscale, Num(1000)),
      inpaintStrength |-> OptNum(cl.inpaintStrength, Num(700)),
      defry |-> OptNum(cl.defry, Num(0)),
      emotionLevel |-> OptNum(cl.emotionLevel, Num(500)),
      width |-> OptNum(cl.width, Num(832)),
      height |-> OptNum(cl.height, Num(1216)),
      scale |-> OptNum(cl.scale, Num(6)),
      steps |-> OptNum(cl.steps, Num(28)),
      seed |-> OptNum(cl.seed, NULL),
      cfgRescale |-> OptNum(cl.cfgRescale, Num(400)),
      sampler |-> Opt(cl.sampler, Str("k_euler_ancestral")),
      noiseSchedule |-> Opt(cl.noiseSchedule, Str("karras")),
      smea |-> cl.smea,
      smeaDyn |-> cl.smeaDyn,
      autoSmea |-> ~cl.noAutoSmea,
      out |-> Opt(cl.out, Str("output")),
      help |-> cl.help ]

\* ------------------------------------------------------------------------
\* Payload builders
\* ------------------------------------------------------------------------
MODEL_NAME == "nai-diffusion-4-5-full"

\* arr[i], undefined beyond the end of the array
At(arr, i) == IF i \in DOMAIN arr THEN arr[i] ELSE UNDEF

\* seed resolution, mutated: || in place of ??
resolveSeed_or(seed, r) == OrElse(seed, FloorMul32(r))

\* opts.seed ?? Math.floor(Math.random() * 2 ** 32)
resolveSeed(seed, r) == Coalesce(seed, FloorMul32(r))

baseParams(opts, r) ==
    LET seed == resolveSeed(opts.seed, r)
        negPrompt == OrElse(opts.negative, Str(""))
        isHighRes == JGt(JMul(opts.width, opts.height), 1024 * 1024)
        sm == opts.smea
        smDyn == IF opts.autoSmea /\ isHighRes /\ ~opts.smea /\ ~opts.smeaDyn
                 THEN TRUE ELSE opts.smeaDyn
    IN [ params_version |-> 3,
         width |-> opts.width,
         height |-> opts.height,
         scale |-> opts.scale,
         sampler |-> opts.sampler,
         steps |-> opts.steps,
         seed |-> seed,
         n_samples |-> 1,
         ucPreset |-> 0,
         qualityToggle |-> TRUE,
         sm |-> sm,
         sm_dyn |-> smDyn,
         dynamic_thresholding |-> FALSE,
         cfg_rescale |-> opts.cfgRescale,
         noise_schedule |-> opts.noiseSchedule,
         normalize_reference_strength_multiple |-> TRUE,
         prefer_brownian |-> TRUE,
         v4_prompt |-> [ caption |-> [ base_caption |-> OrElse(opts.prompt, Str("")),
                                       char_captions |-> <<>> ],
                         use_coords |-> FALSE,
                         use_order |-> TRUE ],
         v4_negative_prompt |-> [ caption |-> [ base_caption |-> negPrompt,
                                                char_captions |-> <<>> ],
                                  legacy_uc |-> FALSE ],
         negative_prompt |-> negPrompt ]

\* buildGeneratePayload, mutated: the fidelity array is left out
buildGeneratePayload_short(opts, refBase64, r) ==
    LET params == baseParams(opts, r)
        withRef ==
            [ director_reference_images |-> <<refBase64>>,
              director_reference_descriptions |->
                  << [ caption |-> [ base_caption |-> opts.refCaption,
                                     char_captions |-> <<>> ],
                       legacy_uc |-> FALSE ] >>,
              director_reference_information_extracted |-> <<opts.infoExtracted>>,
              director_reference_strength_values |-> <<opts.strength>> ] @@ params
    IN [ input |-> opts.prompt,
         model |-> MODEL_NAME,
         action |-> "generate",
         parameters |-> IF Truthy(refBase64) THEN withRef ELSE params ]

buildGeneratePayload(opts, refBase64, r) ==
    LET params == baseParams(opts, r)
        withRef ==
            [ director_reference_images |-> <<refBase64>>,
              director_reference_descriptions |->
                  << [ caption |-> [ base_caption |-> opts.refCaption,
                                     char_captions |-> <<>> ],
                       legacy_uc |-> FALSE ] >>,
              director_reference_information_extracted |-> <<opts.infoExtracted>>,
              director_reference_strength_values |-> <<opts.strength>>,
              director_reference_secondary_strength_values |-> <<opts.fidelity>> ]
            @@ params
    IN [ input |-> opts.prompt,
         model |-> MODEL_NAME,
         action |-> "generate",
         parameters |-> IF Truthy(refBase64) THEN withRef ELSE params ]

\* buildVibePayload, mutated: || in place of ?? on the strengths
buildVibePayload_or(opts, vibeBase64s, r) ==
    LET params == baseParams(opts, r)
        strengths == [i \in 1..Len(vibeBase64s) |->
                         OrElse(At(opts.vibeStrengths, i), Num(600))]
        infos == [i \in 1..Len(vibeBase64s) |->
                     Coalesce(At(opts.vibeInfos, i), Num(1000))]
    IN [ input |-> opts.prompt,
         model |-> MODEL_NAME,
         action |-> "generate",
         parameters |->
             [ reference_image_multiple |-> vibeBase64s,
               reference_information_extracted_multiple |-> infos,
               reference_strength_multiple |-> strengths ] @@ params ]

buildVibePayload(opts, vibeBase64s, r) ==
    LET params == baseParams(opts, r)
        strengths == [i \in 1..Len(vibeBase64s) |->
                         Coalesce(At(opts.vibeStrengths, i), Num(600))]
        infos == [i \in 1..Len(vibeBase64s) |->
                     Coalesce(At(opts.vibeInfos, i), Num(1000))]
    IN [ input |-> opts.prompt,
         model |-> MODEL_NAME,
         action |-> "generate",
         parameters |->
             [ reference_image_multiple |-> vibeBase64s,
               reference_information_extracted_multiple |-> infos,
               reference_strength_multiple |-> strengths ] @@ params ]

\* strength / noise resolution, mutated: truthiness tests in place of
\* the comparisons with null
enhanceStrengthNoise_truthy(opts) ==
    LET fromMag == IF Truthy(opts.magnitude)
                   THEN [ strength |-> opts.magnitude,
                          noise |-> JMin(JScale(opts.magnitude, Num(300)), Num(300)) ]
                   ELSE [ strength |-> UNDEF, noise |-> UNDEF ]
        s1 == IF Truthy(opts.enhanceStrength) THEN opts.enhanceStrength
              ELSE fromMag.strength
        n1 == IF Truthy(opts.enhanceNoise) THEN opts.enhanceNoise
              ELSE fromMag.noise
    IN [ strength |-> IF s1 = UNDEF THEN Num(500) ELSE s1,
         noise |-> IF n1 = UNDEF THEN Num(100) ELSE n1 ]

\* the strength and noise fields of buildEnhancePayload
enhanceStrengthNoise(opts) ==
    LET fromMag == IF opts.magnitude # NULL
                   THEN [ strength |-> opts.magnitude,
                          noise |-> JMin(JScale(opts.magnitude, Num(300)), Num(300)) ]
                   ELSE [ strength |-> UNDEF, noise |-> UNDEF ]
        s1 == IF opts.enhanceStrength # NULL THEN opts.enhanceStrength
              ELSE fromMag.strength
        n1 == IF opts.enhanceNoise # NULL THEN opts.enhanceNoise
              ELSE fromMag.noise
    IN [ strength |-> IF s1 = UNDEF THEN Num(500) ELSE s1,
         noise |-> IF n1 = UNDEF THEN Num(100) ELSE n1 ]

\* geometry of the enhancement payload, mutated: the nominal width/height
\* options are the base of the upscale (the previous revision of the code)
enhanceGeometry_nominal(opts, imgWidth, imgHeight) ==
    IF JGt(opts.upscale, 1000)
    THEN [ width |-> JScale(opts.width, opts.upscale),
           height |-> JScale(opts.height, opts.upscale) ]
    ELSE [ width |-> imgWidth, height |-> imgHeight ]

\* the width and height fields of buildEnhancePayload
enhanceGeometry(opts, imgWidth, imgHeight) ==
    IF JGt(opts.upscale, 1000)
    THEN [ width |-> JScale(imgWidth, opts.upscale),
           height |-> JScale(imgHeight, opts.upscale) ]
    ELSE [ width |-> imgWidth, height |-> imgHeight ]

buildEnhancePayload(opts, imageBase64, imgWidth, imgHeight, r) ==
    LET params == baseParams(opts, r)
        sn == enhanceStrengthNoise(opts)
        geo == enhanceGeometry(opts, imgWidth, imgHeight)
    IN [ input |-> opts.prompt,
         model |-> MODEL_NAME,
         action |-> "img2img",
         parameters |->
             [ width |-> geo.width,
               height |-> geo.height,
               image |-> imageBase64,
               strength |-> sn.strength,
               noise |-> sn.noise,
               extra_noise_seed |-> params.seed ] @@ params ]

buildInpaintPayload(opts, imageBase64, maskBase64, r) ==
    LET params == baseParams(opts, r)
    IN [ input |-> opts.prompt,
         model |-> MODEL_NAME,
         action |-> "infill",
         parameters |->
             [ image |-> imageBase64,
               mask |-> maskBase64,
               strength |-> opts.inpaintStrength,
               extra_noise_seed |-> params.seed ] @@ params ]

\* the request body of callDirector
directorBody(tool, imageBase64, opts) ==
    LET body == [ image |-> imageBase64,
                  width |-> opts.width,
                  height |-> opts.height,
                  req_type |-> tool ]
        colorize == IF Truthy(opts.prompt)
                    THEN [ defry |-> opts.defry, prompt |-> opts.prompt ] @@ body
                    ELSE [ defry |-> opts.defry ] @@ body
        emotion == [ prompt |-> OrElse(opts.prompt, Str("neutral")),
                     defry |-> opts.emotionLevel ] @@ body
    IN IF tool = "colorize" THEN colorize
       ELSE IF tool = "emotion" THEN emotion
       ELSE body

\* ------------------------------------------------------------------------
\* Mask creation. An image is a record [w, h, px] whose px maps the pixel
\* <<x, y>> (0 <= x < w, 0 <= y < h) to the value of its three equal
\* channels: 0 is black, 255 is white.
\* ------------------------------------------------------------------------
BLACK == 0
WHITE == 255

\* sharp({ create: { width, height, background } }) accepts positive
\* integers only
ValidSize(w, h) == IsNum(w) /\ IsNum(h) /\ w.n > 0 /\ h.n > 0

\* the w x h image of one colour
Create(w, h, v) ==
    [ w |-> w, h |-> h, px |-> [p \in (0..(w-1)) \X (0..(h-1)) |-> v] ]

\* regionStr.split(",").map(Number), destructured into rx, ry, rw, rh: a
\* region string is held as the sequence of its comma-separated pieces
parseRegion(regionStr) ==
    [i \in 1..4 |-> IF i <= Len(regionStr) THEN ToNumber(regionStr[i]) ELSE UNDEF]

\* isNaN(v)
IsNaN(v) == v.t \in {"nan", "undefined"}

\* what one iteration of the region loop throws: the explicit NaN test, then
\* the creation of the rw x rh rectangle; "" when the iteration completes
regionError(regionStr) ==
    LET c == parseRegion(regionStr)
    IN IF \E i \in 1..4 : IsNaN(c[i]) THEN "invalid-region"
       ELSE IF ~ValidSize(c[3], c[4]) THEN "invalid-image"
       ELSE ""

\* the overlay pushed by one iteration of the region loop
regionOverlay(regionStr) ==
    LET c == parseRegion(regionStr)
    IN [ input |-> Create(c[3].n, c[4].n, WHITE), left |-> c[1].n, top |-> c[2].n ]

\* Overlay, mutated: the last column of the overlay is not painted
Overlay_short(base, ov) ==
    [ base EXCEPT !.px =
        [ p \in DOMAIN base.px |->
            IF /\ p[1] >= ov.left /\ p[1] < ov.left + ov.input.w - 1
               /\ p[2] >= ov.top /\ p[2] < ov.top + ov.input.h
            THEN ov.input.px[<< p[1] - ov.left, p[2] - ov.top >>]
            ELSE base.px[p] ] ]

\* the pixels of the overlay ov replace those of the image below it
Overlay(base, ov) ==
    [ base EXCEPT !.px =
        [ p \in DOMAIN base.px |->
            IF /\ p[1] >= ov.left /\ p[1] < ov.left + ov.input.w
               /\ p[2] >= ov.top /\ p[2] < ov.top + ov.input.h
            THEN ov.input.px[<< p[1] - ov.left, p[2] - ov.top >>]
            ELSE base.px[p] ] ]

\* Composite, mutated: only the last listed overlay is painted
Composite_last(base, overlays, k) ==
    IF k = 0 THEN base ELSE Overlay(base, overlays[k])

\* .composite(overlays): the first k overlays, in listed order
RECURSIVE Composite(_, _, _)
Composite(base, overlays, k) ==
    IF k = 0 THEN base
    ELSE Overlay(Composite(base, overlays, k - 1), overlays[k])

\* Negate, mutated: black becomes white and white stays white
Negate_white(m) == [ m EXCEPT !.px = [ p \in DOMAIN m.px |-> WHITE ] ]

\* .negate({ alpha: false })
Negate(m) == [ m EXCEPT !.px = [ p \in DOMAIN m.px |-> 255 - m.px[p] ] ]

\* createMask, mutated: the canvas stays black when no region is listed
createMask_black(opts, w, h) ==
    LET n == Len(opts.regions)
        bad == { k \in 1..n : regionError(opts.regions[k]) # "" }
        first == CHOOSE k \in bad : \A m \in bad : k <= m
        overlays == [k \in 1..n |-> regionOverlay(opts.regions[k])]
        drawn == IF n > 0 THEN Composite(Create(w.n, h.n, BLACK), overlays, n)
                 ELSE Create(w.n, h.n, BLACK)
    IN IF ~ValidSize(w, h) THEN [ err |-> "invalid-image" ]
       ELSE IF bad # {} THEN [ err |-> regionError(opts.regions[first]) ]
       ELSE [ err |-> "",
              mask |-> IF opts.invertMask THEN Negate(drawn) ELSE drawn ]

\* createMask(opts) on a w x h canvas, up to the mask it would save: the
\* error of the first region that throws, or the mask
createMask(opts, w, h) ==
    LET n == Len(opts.regions)
        bad == { k \in 1..n : regionError(opts.regions[k]) # "" }
        first == CHOOSE k \in bad : \A m \in bad : k <= m
        overlays == [k \in 1..n |-> regionOverlay(opts.regions[k])]
        drawn == IF n > 0 THEN Composite(Create(w.n, h.n, BLACK), overlays, n)
                 ELSE Create(w.n, h.n, WHITE)
    IN IF ~ValidSize(w, h) THEN [ err |-> "invalid-image" ]
       ELSE IF bad # {} THEN [ err |-> regionError(opts.regions[first]) ]
       ELSE [ err |-> "",
              mask |-> IF opts.invertMask THEN Negate(drawn) ELSE drawn ]

\* ------------------------------------------------------------------------
\* Image analysis: the doubles of the detection translation are fixed-point
\* numbers of WideLimbs limbs, the first limb the integer part (below 2^13)
\* and the others the fraction; exact for coord / 1000 * size with
\* coord <= 1000 a non-negative integer and size < 2^13.
\* ------------------------------------------------------------------------
WideLimbs == 7

\* bit i (1 = most significant) of the number b
WideBit(b, i) ==
    (b[((i - 1) \div LimbBits) + 1] \div (2^(LimbBits - 1 - ((i - 1) % LimbBits)))) % 2

\* index of the first bit holding a 1, beyond the last bit when b is zero
WideLeadingOne(b) ==
    IF \A j \in DOMAIN b : b[j] = 0 THEN Len(b) * LimbBits + 1
    ELSE LET j == CHOOSE m \in DOMAIN b :
                      b[m] # 0 /\ \A n \in 1..(m-1) : b[n] = 0
             k == CHOOSE m \in 1..LimbBits : b[j] \div (2^(LimbBits - m)) = 1
         IN LimbBits * (j - 1) + k

\* b + unit added to limb li, with the carry into the limbs above
WideAddUlp(b, li, unit) ==
    LET carry(j) == /\ b[li] + unit >= LimbBase
                    /\ \A m \in (j+1)..(li-1) : b[m] = LimbBase - 1
    IN [j \in DOMAIN b |->
            IF j > li THEN b[j]
            ELSE IF j = li THEN (b[j] + unit) % LimbBase
            ELSE (b[j] + (IF carry(j) THEN 1 ELSE 0)) % LimbBase]

\* round-to-nearest, ties-to-even, to Mantissa significant bits
WideRound53(b, sticky) ==
    LET p == WideLeadingOne(b)
        last == p + Mantissa - 1
        li == ((last - 1) \div LimbBits) + 1
        unit == 2^(LimbBits * li - last)
    IN IF last >= Len(b) * LimbBits THEN b
       ELSE LET guard == WideBit(b, last + 1)
                rest == sticky \/ \E i \in (last+2)..(Len(b) * LimbBits) :
                                      WideBit(b, i) = 1
                trunc == [j \in DOMAIN b |->
                             IF j < li THEN b[j]
                             ELSE IF j = li THEN (b[j] \div unit) * unit
                             ELSE 0]
                up == guard = 1 /\ (rest \/ WideBit(b, last) = 1)
            IN IF up THEN WideAddUlp(trunc, li, unit) ELSE trunc

\* the double nearest to a / d (a >= 0, 0 < d < 2^18): long division
WideDiv(a, d) ==
    LET rem[j \in 1..WideLimbs] ==
            IF j = 1 THEN a % d ELSE (rem[j-1] * LimbBase) % d
        q == [j \in 1..WideLimbs |->
                 IF j = 1 THEN a \div d ELSE (rem[j-1] * LimbBase) \div d]
    IN WideRound53(q, rem[WideLimbs] # 0)

\* the double nearest to b * n (n an integer, 0 <= n < 2^13)
WideMul(b, n) ==
    LET t[j \in 1..(WideLimbs + 1)] ==
            IF j = WideLimbs + 1 THEN 0
            ELSE b[j] * n + (t[j+1] \div LimbBase)
    IN WideRound53([j \in 1..WideLimbs |-> t[j] % LimbBase], FALSE)

\* Math.round of the non-negative double b: halves go up
WideRoundUp(b) == b[1] + (IF b[2] >= LimbBase \div 2 THEN 1 ELSE 0)

\* Math.round of the double -b, b non-negative: halves go up, towards zero
WideRoundDown(b) ==
    LET above == \/ b[2] > LimbBase \div 2
                 \/ b[2] = LimbBase \div 2 /\ \E j \in 3..WideLimbs : b[j] # 0
    IN -(b[1] + (IF above THEN 1 ELSE 0))

\* a - b
JSub(a, b) == IF IsNum(a) /\ IsNum(b) THEN Num(a.n - b.n) ELSE NaN

\* Math.round(coord / 1000 * size)
toPixels(coord, size) ==
    IF ~IsNum(coord) \/ ~IsNum(size) THEN NaN
    ELSE LET a == IF coord.n < 0 THEN -coord.n ELSE coord.n
             v == WideMul(WideDiv(a, 1000), size.n)
         IN Num(IF coord.n < 0 THEN WideRoundDown(v) ELSE WideRoundUp(v))

\* a JSON array
Array(items) == [t |-> "array", items |-> items]

\* the text of a candidate, as its pieces in order: a markdown fence, a
\* JSON document, or other text
Text(pieces) == [t |-> "text", pieces |-> pieces]
Fence == [k |-> "fence"]
Prose == [k |-> "prose"]
Json(v) == [k |-> "json", v |-> v]

\* text.replace(/```json\n?/g, "").replace(/```\n?/g, "").trim()
cleanText(text) ==
    LET keep(piece) == piece.k # "fence"
    IN SelectSeq(text.pieces, keep)

\* JSON.parse(cleaned): succeeds on exactly one JSON document
parseJson(pieces) ==
    IF Len(pieces) = 1 /\ pieces[1].k = "json"
    THEN [ok |-> TRUE, value |-> pieces[1].v]
    ELSE [ok |-> FALSE, value |-> UNDEF]

\* findDetections, mutated: the parse is not guarded by try / catch
findDetections_uncaught(text) ==
    IF text = UNDEF \/ Len(text.pieces) = 0
    THEN [found |-> FALSE, threw |-> FALSE, detections |-> <<>>]
    ELSE LET parsed == parseJson(cleanText(text))
         IN IF ~parsed.ok
            THEN [found |-> FALSE, threw |-> TRUE, detections |-> <<>>]
            ELSE IF parsed.value.t # "array" \/ Len(parsed.value.items) = 0
            THEN [found |-> FALSE, threw |-> FALSE, detections |-> <<>>]
            ELSE [found |-> TRUE, threw |-> FALSE,
                  detections |-> parsed.value.items]

\* analyzeImage from the text of the answer to the detections it will
\* translate: none when the text is missing or empty, when the parse throws
\* (caught), or when the value is not a non-empty array
findDetections(text) ==
    IF text = UNDEF \/ Len(text.pieces) = 0
    THEN [found |-> FALSE, threw |-> FALSE, detections |-> <<>>]
    ELSE LET parsed == parseJson(cleanText(text))
         IN IF ~parsed.ok
            THEN [found |-> FALSE, threw |-> FALSE, detections |-> <<>>]
            ELSE IF parsed.value.t # "array" \/ Len(parsed.value.items) = 0
            THEN [found |-> FALSE, threw |-> FALSE, detections |-> <<>>]
            ELSE [found |-> TRUE, threw |-> FALSE,
                  detections |-> parsed.value.items]

\* one iteration of the translation loop throws a TypeError: det.box_2d is
\* not iterable, or det.label has no padEnd
detectionThrows(det) == det.box_2d.t # "array" \/ det.label.t # "str"

\* the region printed by one iteration of the translation loop
detectionRegion(det, w, h) ==
    LET b == det.box_2d.items
        yMin == At(b, 1)
        xMin == At(b, 2)
        yMax == At(b, 3)
        xMax == At(b, 4)
    IN [ x |-> toPixels(xMin, w),
         y |-> toPixels(yMin, h),
         w |-> toPixels(JSub(xMax, xMin), w),
         h |-> toPixels(JSub(yMax, yMin), h) ]

\* the translation loop over the detections: the regions printed before
\* the first iteration that throws, and whether one threw
translate(detections, w, h) ==
    LET bad == { k \in DOMAIN detections : detectionThrows(detections[k]) }
        stop == IF bad = {} THEN Len(detections) + 1
                ELSE CHOOSE k \in bad : \A m \in bad : k <= m
    IN [ printed |-> [k \in 1..(stop - 1) |->
                         detectionRegion(detections[k], w, h)],
         threw |-> bad # {} ]

\* text.slice(0, 500) of a response body: a body is held as its length, a
\* prefix of it by the length of the prefix
EXCERPT_LIMIT == 500

\* the excerpt, mutated: the whole body
bodyExcerpt_whole(body) == body

bodyExcerpt(body) == IF body < EXCERPT_LIMIT THEN body ELSE EXCERPT_LIMIT

\* ------------------------------------------------------------------------
\* Prompt validation (soft warnings)
\* ------------------------------------------------------------------------
LongPrompt ==
    "rating:explicit, -1::censored::, {1girl}, year 2023, (640 characters)"
LoudPrompt == "masterpiece, rating:explicit, from behind, navel"

\* what validatePrompt reads of a prompt text: p.length, the substrings it
\* looks for with p.includes, p.trimStart().startsWith("rating:explicit")
\* and /year\s+\d{4}/.test(p)
PromptFeatures(p) ==
    CASE p = LongPrompt ->
           [ length |-> 640, explicitFirst |-> TRUE, year |-> TRUE,
             includes |-> {"rating:explicit", "-1::censored::", "{", "::"} ]
      [] p = LoudPrompt ->
           [ length |-> 48, explicitFirst |-> FALSE, year |-> FALSE,
             includes |-> {"masterpiece", "rating:explicit", "from behind",
                           "navel"} ]
      [] p = "1girl" ->
           [ length |-> 5, explicitFirst |-> FALSE, year |-> FALSE,
             includes |-> {} ]
      [] OTHER ->
           [ length |-> 0, explicitFirst |-> FALSE, year |-> FALSE,
             includes |-> {} ]

When(cond, warning) == IF cond THEN << warning >> ELSE <<>>

validatePrompt_trim(o) ==
    [ opts |-> IF Truthy(o.prompt)
                  /\ "masterpiece" \in PromptFeatures(o.prompt.s).includes
               THEN [o EXCEPT !.prompt = Str("1girl")] ELSE o,
      warns |-> <<>> ]

\* validatePrompt(opts): the options as it leaves them and the warnings it
\* prints, in order
validatePrompt(o) ==
    IF ~Truthy(o.prompt) THEN [opts |-> o, warns |-> <<>>]
    ELSE LET f == PromptFeatures(o.prompt.s)
             has(t) == t \in f.includes
         IN [ opts |-> o,
              warns |->
                When(has("rating:explicit") /\ ~has("-1::censored::"),
                     "uncensored")
                \o When(~has("{") /\ ~has("::"), "no-emphasis")
                \o When(has("masterpiece") \/ has("very aesthetic"),
                        "redundant")
                \o When(Truthy(o.ref) /\ ~f.year, "no-year")
                \o When(has("rating:explicit") /\ ~f.explicitFirst,
                        "explicit-not-first")
                \o When(f.length < 500, "short")
                \o When((has("from behind") \/ has("from_behind"))
                          /\ \E t \in {"pussy", "clitoris", "navel", "nipples"} :
                                has(t),
                        "spatial-conflict") ]

\* ------------------------------------------------------------------------
\* Unwrapping the answer of the image service
\* ------------------------------------------------------------------------
\* new AdmZip(buffer) accepts a zip archive only
IsArchive(buffer) == buffer.t = "zip"

\* e.entryName.endsWith(".png")
EndsWithPng(name) == Len(name) > 0 /\ name[Len(name)] = ".png"

extractPng_any(zipBuffer) ==
    IF ~IsArchive(zipBuffer) THEN [err |-> "bad-archive", data |-> 0]
    ELSE IF zipBuffer.entries = <<>> THEN [err |-> "missing-png", data |-> 0]
    ELSE [err |-> "", data |-> zipBuffer.entries[1].data]

\* extractPng(zipBuffer): the data of the first entry whose name ends in
\* ".png"; throws when the buffer is no archive or holds no such entry
extractPng(zipBuffer) ==
    IF ~IsArchive(zipBuffer) THEN [err |-> "bad-archive", data |-> 0]
    ELSE LET entries == zipBuffer.entries
             pngs == { i \in 1..Len(entries) : EndsWithPng(entries[i].name) }
         IN IF pngs = {} THEN [err |-> "missing-png", data |-> 0]
            ELSE [err |-> "",
                  data |-> entries[CHOOSE i \in pngs :
                                      \A j \in pngs : i <= j].data]

\* ------------------------------------------------------------------------
\* The environment of one run: files on disk, keys, remote answers
\* ------------------------------------------------------------------------
Files ==
    [ p \in {"a.png", "b.png", "c.png", "d.png", "mask.png", "t.png",
              "missing.png"} |->
        CASE p = "a.png" -> [ok |-> TRUE, w |-> 832, h |-> 1216]
          [] p = "b.png" -> [ok |-> TRUE, w |-> 1472, h |-> 1472]
          [] p = "c.png" -> [ok |-> TRUE, w |-> 1000, h |-> 1200]
          [] p = "d.png" -> [ok |-> TRUE, w |-> 1600, h |-> 900]
          [] p = "mask.png" -> [ok |-> TRUE, w |-> 832, h |-> 1216]
          [] p = "t.png" -> [ok |-> TRUE, w |-> 2, h |-> 3]
          [] OTHER -> [ok |-> FALSE, w |-> 0, h |-> 0] ]

\* fs.readFile / sharp(path) succeed on a path that names a decodable file
Readable(path) == path.t = "str" /\ path.s \in DOMAIN Files /\ Files[path.s].ok

\* the bytes of a file as loaded by loadImageBase64 / fs.readFile
RawImage(path) ==
    [t |-> "img", src |-> path.s, canvas |-> "", w |-> Files[path.s].w,
     h |-> Files[path.s].h]

\* values Math.random() can return (see FloorMul32)
RandomDraws ==
    { [hi |-> 0, lo |-> 0, rest |-> 0],
      [hi |-> 0, lo |-> 7, rest |-> 1],
      [hi |-> 65535, lo |-> 65535, rest |-> 1] }

\* an entry of a zip archive: its name as the sequence of its dot-separated
\* pieces (the last one is the extension), and its bytes
Entry(name, data) == [name |-> name, data |-> data]

\* a body that is a zip archive, and one that is not (a bare image, a text)
Zip(entries) == [t |-> "zip", entries |-> entries]
RawBytes == [t |-> "raw", data |-> 77]

ArchiveEntries ==
    { << Entry(<< "image_0", ".png" >>, 11) >>,
      << Entry(<< "meta", ".json" >>, 5), Entry(<< "image_0", ".png" >>, 11),
         Entry(<< "image_1", ".png" >>, 12) >>,
      << Entry(<< "meta", ".json" >>, 5) >>,
      << Entry(<< "image_0", ".png", ".txt" >>, 13),
         Entry(<< "image_0", ".PNG" >>, 14) >>,
      <<>> }

Archives ==
    { Zip(z) : z \in ArchiveEntries }

\* answers of the remote endpoints
Responses ==
    { [ok |-> FALSE, status |-> 400, body |-> 0, bytes |-> RawBytes],
      [ok |-> FALSE, status |-> 401, body |-> 499, bytes |-> RawBytes],
      [ok |-> FALSE, status |-> 429, body |-> 500, bytes |-> RawBytes],
      [ok |-> FALSE, status |-> 500, body |-> 501, bytes |-> RawBytes],
      [ok |-> FALSE, status |-> 502, body |-> 2000, bytes |-> RawBytes],
      [ok |-> TRUE, status |-> 200, body |-> 900, bytes |-> RawBytes] }
    \cup { [ok |-> TRUE, status |-> 200, body |-> 900, bytes |-> z] :
             z \in Archives }

\* detections: a label and a box [yMin, xMin, yMax, xMax]
Detection(label, box) == [label |-> label, box_2d |-> box]

\* box coordinates tried, on the 0..1000 scale
Coords == {0, 5, 565, 1000}

\* the boxes with yMin <= yMax and xMin <= xMax
Boxes ==
    { Array(<< Num(q[1]), Num(q[2]), Num(q[3]), Num(q[4]) >>) :
        q \in { c \in Coords \X Coords \X Coords \X Coords :
                   c[1] <= c[3] /\ c[2] <= c[4] } }

FullBox == Array(<< Num(0), Num(0), Num(1000), Num(1000) >>)
LowBox == Array(<< Num(565), Num(5), Num(1000), Num(565) >>)

\* detections without a box of four numbers, or without a label
OddDetections ==
    { Detection(Str("hand"), UNDEF),
      Detection(Str("hand"), Array(<< Num(0), Num(5), Num(565) >>)),
      Detection(Str("hand"), Array(<< Num(0), BadNumber, Num(565), Num(1000) >>)),
      Detection(UNDEF, FullBox) }

\* the batches of detections an answer can carry
Batches ==
    { << Detection(Str("face"), b) >> : b \in Boxes }
    \cup { << Detection(Str("face"), FullBox), Detection(Str("hand"), LowBox) >>,
           << Detection(Str("hand"), LowBox), Detection(Str("face"), FullBox) >> }
    \cup { << o >> : o \in OddDetections }
    \cup { << o, Detection(Str("face"), FullBox) >> : o \in OddDetections }
    \cup { << Detection(Str("face"), FullBox), o, Detection(Str("leg"), LowBox) >> :
             o \in OddDetections }

\* the texts of a candidate: a JSON array of detections, bare or fenced,
\* other JSON values, text that is not JSON, an empty text, no text
Texts ==
    { Text(<< Json(Array(b)) >>) : b \in Batches }
    \cup { Text(<< Fence, Json(Array(b)), Fence >>) :
             b \in { << Detection(Str("face"), FullBox) >>,
                     << Detection(Str("hand"), LowBox) >> } }
    \cup { Text(<< Json(Array(<<>>)) >>), Text(<< Json(NULL) >>),
           Text(<< Json([t |-> "object"]) >>), Text(<< Json(Num(3)) >>),
           Text(<< Fence, Json(Array(<<>>)), Fence >>),
           Text(<< Prose >>), Text(<< Fence, Prose, Fence >>),
           Text(<< Prose, Json(Array(<< Detection(Str("face"), FullBox) >>)) >>),
           Text(<< Fence, Fence >>), Text(<<>>), UNDEF }

\* answers of the vision endpoint: json is whether the body is a JSON
\* document, text the text of its first candidate
GeminiResponses ==
    { [ok |-> FALSE, status |-> 403, body |-> 120, json |-> TRUE, text |-> UNDEF],
      [ok |-> FALSE, status |-> 503, body |-> 700, json |-> FALSE, text |-> UNDEF],
      [ok |-> TRUE, status |-> 200, body |-> 40, json |-> FALSE, text |-> UNDEF] }
    \cup { [ok |-> TRUE, status |-> 200, body |-> 900, json |-> TRUE, text |-> t] :
             t \in Texts }

\* ------------------------------------------------------------------------
\* Command lines explored by the model: the seven actions and --help;
\* options are given at most once, except the repeatable vibe and region
\* options
\* ------------------------------------------------------------------------
DefaultCl ==
    [ action |-> "generate", tool |-> "", prompt |-> ABSENT, negative |-> ABSENT,
      ref |-> ABSENT, refCaption |-> ABSENT, strength |-> ABSENT,
      fidelity |-> ABSENT, infoExtracted |-> ABSENT, vibes |-> <<>>,
      vibeStrengths |-> <<>>, vibeInfos |-> <<>>, noNormalizeVibes |-> FALSE,
      image |-> ABSENT, mask |-> ABSENT, regions |-> <<>>,
      invertMask |-> FALSE, detect |-> ABSENT, magnitude |-> ABSENT,
      enhanceStrength |-> ABSENT, enhanceNoise |-> ABSENT, upscale |-> ABSENT,
      inpaintStrength |-> ABSENT, defry |-> ABSENT, emotionLevel |-> ABSENT,
      width |-> ABSENT, height |-> ABSENT, scale |-> ABSENT, steps |-> ABSENT,
      seed |-> ABSENT, cfgRescale |-> ABSENT, sampler |-> ABSENT,
      noiseSchedule |-> ABSENT, smea |-> FALSE, smeaDyn |-> FALSE,
      noAutoSmea |-> FALSE, out |-> ABSENT, help |-> FALSE ]

PromptCl == [DefaultCl EXCEPT !.prompt = Str("1girl")]

PromptTokens == {ABSENT, Str(""), Str("1girl"), Str(LongPrompt), Str(LoudPrompt)}
NegativeTokens == {ABSENT, Str("lowres")}
SeedTokens == {ABSENT, Num(0), Num(7)}
SizeTokens == { <<ABSENT, ABSENT>>, <<Num(1024), Num(1024)>>,
                <<Num(1472), Num(1472)>> }

\* a prompt and every combination of the sampling options
BaseCls ==
    { [PromptCl EXCEPT !.negative = n, !.seed = sd,
                       !.width = sz[1], !.height = sz[2],
                       !.smea = sm, !.smeaDyn = dyn, !.noAutoSmea = na] :
        n \in NegativeTokens, sd \in SeedTokens,
        sz \in SizeTokens, sm \in BOOLEAN, dyn \in BOOLEAN, na \in BOOLEAN }

\* a complete command line of each action that calls the image service
ActionCl(a) ==
    CASE a = "vibe" -> [DefaultCl EXCEPT !.action = a, !.vibes = <<Str("a.png")>>]
      [] a = "enhance" -> [DefaultCl EXCEPT !.action = a, !.image = Str("a.png")]
      [] a = "inpaint" -> [DefaultCl EXCEPT !.action = a, !.image = Str("a.png"),
                                            !.mask = Str("mask.png")]
      [] a = "director" -> [DefaultCl EXCEPT !.action = a, !.tool = "bg-removal",
                                             !.image = Str("a.png")]
      [] OTHER -> [DefaultCl EXCEPT !.action = a]

\* every action with and without a prompt and a negative prompt
PromptCls ==
    { [ActionCl(a) EXCEPT !.prompt = p, !.negative = n] :
        a \in {"generate", "vibe", "enhance", "inpaint", "director"},
        p \in PromptTokens, n \in NegativeTokens }

RefTokens == {ABSENT, Str(""), Str("a.png"), Str("b.png"), Str("c.png"),
              Str("d.png"), Str("missing.png")}

GenerateCls == { [b EXCEPT !.ref = rf] : b \in BaseCls, rf \in RefTokens }

VibeTokens == {Str("a.png"), Str("missing.png")}
VibeLists(counts) ==
    { [i \in 1..n |-> IF i % 2 = 1 THEN p ELSE q] :
        n \in counts, p \in VibeTokens, q \in VibeTokens }
ScalarTokens == {Num(0), Num(800)}
ScalarLists ==
    { <<>> } \cup { <<x>> : x \in ScalarTokens }
             \cup { <<x, y>> : x \in ScalarTokens, y \in ScalarTokens }

VibeCls ==
    { [b EXCEPT !.action = "vibe", !.vibes = <<Str("c.png"), Str("d.png")>>] :
        b \in BaseCls }
    \cup
    { [PromptCl EXCEPT !.action = "vibe", !.vibes = vs, !.vibeStrengths = ss,
                       !.vibeInfos = is, !.noNormalizeVibes = nn] :
        vs \in VibeLists(0..2), ss \in ScalarLists, is \in ScalarLists,
        nn \in BOOLEAN }
    \cup
    { [PromptCl EXCEPT !.action = "vibe", !.vibes = vs] :
        vs \in VibeLists((MaxVibes - 2)..MaxVibes) }
    \cup
    { [b EXCEPT !.action = "vibe",
                !.vibes = <<Str("a.png"), Str("b.png"), Str("mask.png")>>] :
        b \in BaseCls }

ImageTokens == {ABSENT, Str("a.png"), Str("b.png"), Str("missing.png")}
UpscaleTokens == {ABSENT, Num(500), Num(2000)}
EnhanceTokens == {ABSENT, Num(0), Num(400), Num(500), Num(2000)}

EnhanceCls ==
    { [b EXCEPT !.action = "enhance", !.image = im, !.upscale = u] :
        b \in BaseCls, im \in ImageTokens, u \in UpscaleTokens }
    \cup
    { [DefaultCl EXCEPT !.action = "enhance", !.image = Str("a.png"),
                        !.magnitude = m, !.enhanceStrength = es,
                        !.enhanceNoise = en] :
        m \in EnhanceTokens, es \in EnhanceTokens, en \in EnhanceTokens }

InpaintCls ==
    { [b EXCEPT !.action = "inpaint", !.image = im, !.mask = mk] :
        b \in BaseCls, im \in {ABSENT, Str("a.png")},
        mk \in {ABSENT, Str("mask.png"), Str("missing.png")} }

DirectorCls ==
    { [DefaultCl EXCEPT !.action = "director", !.tool = tl, !.image = im,
                        !.prompt = p] :
        tl \in {"", "bg-removal", "colorize", "emotion"},
        im \in {ABSENT, Str("a.png"), Str("missing.png")},
        p \in PromptTokens }

HelpCls == { [DefaultCl EXCEPT !.help = TRUE] }

\* command lines with one numeric option given a value that is not a number
NaNCls ==
    { [PromptCl EXCEPT !.width = BadNumber],
      [PromptCl EXCEPT !.height = BadNumber],
      [PromptCl EXCEPT !.scale = BadNumber],
      [PromptCl EXCEPT !.steps = BadNumber],
      [PromptCl EXCEPT !.seed = BadNumber],
      [PromptCl EXCEPT !.cfgRescale = BadNumber],
      [PromptCl EXCEPT !.ref = Str("a.png"), !.strength = BadNumber],
      [PromptCl EXCEPT !.ref = Str("a.png"), !.fidelity = BadNumber],
      [PromptCl EXCEPT !.ref = Str("a.png"), !.infoExtracted = BadNumber],
      [PromptCl EXCEPT !.action = "vibe", !.vibes = <<Str("a.png")>>,
                       !.vibeStrengths = <<BadNumber>>],
      [PromptCl EXCEPT !.action = "vibe", !.vibes = <<Str("a.png")>>,
                       !.vibeInfos = <<BadNumber>>],
      [ActionCl("enhance") EXCEPT !.magnitude = BadNumber],
      [ActionCl("enhance") EXCEPT !.enhanceStrength = BadNumber],
      [ActionCl("enhance") EXCEPT !.enhanceNoise = BadNumber],
      [ActionCl("enhance") EXCEPT !.upscale = BadNumber],
      [ActionCl("inpaint") EXCEPT !.prompt = Str("1girl"),
                                  !.inpaintStrength = BadNumber],
      [ActionCl("director") EXCEPT !.width = BadNumber],
      [ActionCl("director") EXCEPT !.tool = "colorize", !.defry = BadNumber],
      [ActionCl("director") EXCEPT !.tool = "emotion",
                                   !.emotionLevel = BadNumber] }

\* a region string "x,y,w,h" as the sequence of its pieces
Region(x, y, w, h) == << Num(x), Num(y), Num(w), Num(h) >>

\* the rectangles that lie inside a w x h canvas
InBounds(w, h) ==
    { Region(r[1], r[2], r[3], r[4]) :
        r \in { q \in (0..(w-1)) \X (0..(h-1)) \X (1..w) \X (1..h) :
                   q[1] + q[3] <= w /\ q[2] + q[4] <= h } }

\* the rectangles inside a w x h canvas that reach its last pixel
Corners(w, h) ==
    { r \in InBounds(w, h) : r[1].n + r[3].n = w /\ r[2].n + r[4].n = h }

\* up to two --region options inside the canvas
RegionLists(w, h) ==
    { <<>> } \cup { <<a>> : a \in InBounds(w, h) }
             \cup { <<a, b>> : a \in InBounds(w, h), b \in Corners(w, h) }

\* region strings with a piece that is missing, empty, not a number, zero
\* or negative
OddRegions ==
    { << Num(0), Num(0), BadNumber, Num(1) >>,
      << Num(0), Num(0), Num(1), BadNumber >>,
      << BadNumber, Num(0), Num(1), Num(1) >>,
      << Num(0), Num(0), Num(1) >>,
      << Num(0), Num(0), Num(-1), Num(1) >>,
      << Num(0), Num(0), Num(1), Num(-1) >>,
      << Num(0), Num(0), Num(0), Num(1) >>,
      << Num(0), Num(0), Str(""), Num(1) >>,
      << Str(""), Num(0), Num(1), Num(1) >> }

MaskCl == [DefaultCl EXCEPT !.action = "mask"]

MaskCls ==
    UNION { { [MaskCl EXCEPT !.width = Num(c[1]), !.height = Num(c[2]),
                             !.regions = rs, !.invertMask = inv] :
                rs \in RegionLists(c[1], c[2]), inv \in BOOLEAN } :
            c \in (1..MaxCanvas) \X (1..MaxCanvas) }
    \cup
    { [MaskCl EXCEPT !.width = Num(2), !.height = Num(2), !.regions = rs,
                     !.invertMask = inv] :
        rs \in { <<o>> : o \in OddRegions }
               \cup { << Region(0, 0, 1, 1), o >> : o \in OddRegions }
               \cup { << o, Region(0, 0, 1, 1) >> : o \in OddRegions },
        inv \in BOOLEAN }
    \cup
    { [MaskCl EXCEPT !.image = im, !.regions = rs] :
        im \in {Str("t.png"), Str("missing.png")},
        rs \in { <<>>, << Region(0, 1, 2, 2) >> } }
    \cup
    { [MaskCl EXCEPT !.width = BadNumber, !.height = Num(2)],
      [MaskCl EXCEPT !.width = Num(0), !.height = Num(2)] }

AnalyzeCls ==
    { [DefaultCl EXCEPT !.action = "analyze", !.image = im, !.detect = dt] :
        im \in {ABSENT, Str("a.png"), Str("d.png"), Str("missing.png")},
        dt \in {ABSENT, Str("hands")} }

CmdLines ==
    GenerateCls \cup VibeCls \cup EnhanceCls \cup InpaintCls \cup DirectorCls
    \cup PromptCls \cup HelpCls \cup NaNCls \cup MaskCls \cup AnalyzeCls

\* the command lines tried without NOVELAI_API_KEY
KeylessCls ==
    PromptCls \cup HelpCls
    \cup { [MaskCl EXCEPT !.width = Num(2), !.height = Num(2)] }
    \cup { [DefaultCl EXCEPT !.action = "analyze", !.image = Str("a.png")] }

\* ------------------------------------------------------------------------
\* State
\* ------------------------------------------------------------------------
VARIABLES
    pc,         \* position of main(): start, prepare, build, send, await,
                \* extract, write, mask, save, analyze, detect, done
    opts,       \* the options record returned by parseArgs
    apiKey,     \* whether NOVELAI_API_KEY is set
    prepared,   \* images loaded or normalised so far, in order
    payload,    \* the request body handed to the transport client, or NULL
    requests,   \* number of outbound requests issued
    response,   \* the answer of the remote endpoint, or NULL
    outFile,    \* the bytes written to the output file, or NULL
    exitCode,   \* NoExit while running, then the exit code of the process
    error,      \* the error that ended the run, "" if none
    img,        \* canvas check: metadata of the source image
    norm,       \* canvas check: the normalised image, or NULL
    geminiKey,  \* whether GEMINI_API_KEY is set
    printed,    \* analyze: the regions printed so far, in order
    errorDetail, \* the status and body excerpt carried by a remote error
    warnings    \* the prompt warnings printed by validatePrompt, in order

vars == << pc, opts, apiKey, prepared, payload, requests, response, outFile,
           exitCode, error, img, norm, geminiKey, printed, errorDetail,
           warnings >>

NoExit == -1
NoImage == [w |-> 0, h |-> 0]
NoDetail == [status |-> 0, excerpt |-> 0]

RunInit ==
    /\ pc = "start"
    /\ prepared = <<>>
    /\ payload = NULL
    /\ requests = 0
    /\ response = NULL
    /\ outFile = NULL
    /\ exitCode = NoExit
    /\ error = ""
    /\ printed = <<>>
    /\ errorDetail = NoDetail
    /\ warnings = <<>>

Init ==
    /\ \/ /\ apiKey = TRUE /\ geminiKey = TRUE
          /\ \E cl \in CmdLines : opts = parseArgs(cl)
       \/ /\ apiKey = FALSE /\ geminiKey = FALSE
          /\ \E cl \in KeylessCls : opts = parseArgs(cl)
    /\ RunInit
    /\ img = NoImage
    /\ norm = NULL

\* process.exit(code), or the rejection of main() caught at the bottom of
\* the file
Exit(code, err) ==
    /\ pc' = "done"
    /\ exitCode' = code
    /\ error' = err

\* ------------------------------------------------------------------------
\* main(): one action per step between two suspension points
\* ------------------------------------------------------------------------
RunVars == << prepared, payload, requests, response, outFile >>

\* the prefix of main(), mutated: the branch is chosen without any check
Dispatch_unchecked ==
    /\ pc = "start"
    /\ pc' = CASE opts.action = "mask" -> "mask"
                [] opts.action = "analyze" -> "analyze"
                [] opts.action = "generate" /\ ~Truthy(opts.ref) -> "build"
                [] OTHER -> "prepare"
    /\ UNCHANGED << opts, apiKey, RunVars, exitCode, error, img, norm,
                    geminiKey, printed, errorDetail, warnings >>

\* the synchronous prefix of main(): help, key and required-input checks,
\* validatePrompt, and the choice of the branch
Dispatch ==
    /\ pc = "start"
    /\ IF opts.help THEN Exit(0, "")
       ELSE IF opts.action = "mask"
            THEN pc' = "mask" /\ UNCHANGED << exitCode, error >>
       ELSE IF opts.action = "analyze"
            THEN IF ~Truthy(opts.image) THEN Exit(1, "missing-image")
                 ELSE IF ~geminiKey THEN Exit(1, "missing-key")
                 ELSE pc' = "analyze" /\ UNCHANGED << exitCode, error >>
       ELSE IF ~apiKey THEN Exit(1, "missing-key")
       ELSE IF opts.action = "director"
            THEN IF ~Truthy(opts.directorTool) THEN Exit(1, "missing-tool")
                 ELSE IF ~Truthy(opts.image) THEN Exit(1, "missing-image")
                 ELSE pc' = "prepare" /\ UNCHANGED << exitCode, error >>
       ELSE IF ~Truthy(opts.prompt) /\ opts.action # "enhance"
            THEN Exit(1, "missing-prompt")
       ELSE IF opts.action = "vibe"
            THEN IF Len(opts.vibes) = 0 THEN Exit(1, "missing-vibe")
                 ELSE pc' = "prepare" /\ UNCHANGED << exitCode, error >>
       ELSE IF opts.action = "enhance"
            THEN IF ~Truthy(opts.image) THEN Exit(1, "missing-image")
                 ELSE pc' = "prepare" /\ UNCHANGED << exitCode, error >>
       ELSE IF opts.action = "inpaint"
            THEN IF ~Truthy(opts.image) \/ ~Truthy(opts.mask)
                 THEN Exit(1, "missing-image")
                 ELSE pc' = "prepare" /\ UNCHANGED << exitCode, error >>
       ELSE /\ pc' = IF Truthy(opts.ref) THEN "prepare" ELSE "build"
            /\ UNCHANGED << exitCode, error >>
    /\ IF /\ ~opts.help /\ apiKey
          /\ opts.action \in {"generate", "vibe", "enhance", "inpaint"}
          /\ (Truthy(opts.prompt) \/ opts.action = "enhance")
       THEN LET v == validatePrompt(opts)
            IN opts' = v.opts /\ warnings' = v.warns
       ELSE UNCHANGED << opts, warnings >>
    /\ UNCHANGED << apiKey, RunVars, img, norm, geminiKey, printed, errorDetail >>

\* generate: refBase64 = await prepareReferenceImage(opts.ref)
PrepareRef ==
    /\ UNCHANGED warnings
    /\ pc = "prepare"
    /\ opts.action = "generate"
    /\ IF Readable(opts.ref)
       THEN /\ prepared' = << prepareReferenceImage(opts.ref.s, Files[opts.ref.s]) >>
            /\ pc' = "build"
            /\ UNCHANGED << exitCode, error >>
       ELSE Exit(1, "image-read") /\ UNCHANGED prepared
    /\ UNCHANGED << opts, apiKey, payload, requests, response, outFile, img, norm,
                    geminiKey, printed, errorDetail >>

\* vibe: one iteration of the loop over opts.vibes
PrepareVibe ==
    /\ UNCHANGED warnings
    /\ pc = "prepare"
    /\ opts.action = "vibe"
    /\ LET v == opts.vibes[Len(prepared) + 1]
       IN IF Readable(v)
          THEN /\ prepared' = Append(prepared, prepareReferenceImage(v.s, Files[v.s]))
               /\ pc' = IF Len(prepared) + 1 = Len(opts.vibes) THEN "build"
                        ELSE "prepare"
               /\ UNCHANGED << exitCode, error >>
          ELSE Exit(1, "image-read") /\ UNCHANGED prepared
    /\ UNCHANGED << opts, apiKey, payload, requests, response, outFile, img, norm,
                    geminiKey, printed, errorDetail >>

\* enhance: read the source image and its decoded metadata
PrepareEnhance ==
    /\ UNCHANGED warnings
    /\ pc = "prepare"
    /\ opts.action = "enhance"
    /\ IF Readable(opts.image)
       THEN /\ prepared' = << RawImage(opts.image) >>
            /\ pc' = "build"
            /\ UNCHANGED << exitCode, error >>
       ELSE Exit(1, "image-read") /\ UNCHANGED prepared
    /\ UNCHANGED << opts, apiKey, payload, requests, response, outFile, img, norm,
                    geminiKey, printed, errorDetail >>

\* inpaint: load the source image, then the mask
PrepareInpaint ==
    /\ UNCHANGED warnings
    /\ pc = "prepare"
    /\ opts.action = "inpaint"
    /\ IF Readable(opts.image) /\ Readable(opts.mask)
       THEN /\ prepared' = << RawImage(opts.image), RawImage(opts.mask) >>
            /\ pc' = "build"
            /\ UNCHANGED << exitCode, error >>
       ELSE Exit(1, "image-read") /\ UNCHANGED prepared
    /\ UNCHANGED << opts, apiKey, payload, requests, response, outFile, img, norm,
                    geminiKey, printed, errorDetail >>

\* director: load the source image
PrepareDirector ==
    /\ UNCHANGED warnings
    /\ pc = "prepare"
    /\ opts.action = "director"
    /\ IF Readable(opts.image)
       THEN /\ prepared' = << RawImage(opts.image) >>
            /\ pc' = "build"
            /\ UNCHANGED << exitCode, error >>
       ELSE Exit(1, "image-read") /\ UNCHANGED prepared
    /\ UNCHANGED << opts, apiKey, payload, requests, response, outFile, img, norm,
                    geminiKey, printed, errorDetail >>

\* the payload builder of the branch
Build ==
    /\ UNCHANGED warnings
    /\ pc = "build"
    /\ \E r \in RandomDraws :
         payload' =
           CASE opts.action = "generate" ->
                  buildGeneratePayload(opts, IF Len(prepared) = 0 THEN NULL
                                             ELSE prepared[1], r)
             [] opts.action = "vibe" -> buildVibePayload(opts, prepared, r)
             [] opts.action = "enhance" ->
                  buildEnhancePayload(opts, prepared[1], Num(prepared[1].w),
                                      Num(prepared[1].h), r)
             [] opts.action = "inpaint" ->
                  buildInpaintPayload(opts, prepared[1], prepared[2], r)
             [] OTHER -> directorBody(opts.directorTool.s, prepared[1], opts)
    /\ pc' = "send"
    /\ UNCHANGED << opts, apiKey, prepared, requests, response, outFile,
                    exitCode, error, img, norm, geminiKey, printed, errorDetail >>

\* fetch(...): the request leaves
Send ==
    /\ UNCHANGED warnings
    /\ pc = "send"
    /\ requests' = requests + 1
    /\ pc' = "await"
    /\ UNCHANGED << opts, apiKey, prepared, payload, response, outFile,
                    exitCode, error, img, norm, geminiKey, printed, errorDetail >>

Receive_retry ==
    /\ pc = "await"
    /\ opts.action # "analyze"
    /\ \E resp \in Responses :
         /\ response' = resp
         /\ pc' = IF resp.ok THEN "extract" ELSE "send"
    /\ UNCHANGED << opts, apiKey, prepared, payload, requests, outFile, img, norm,
                    geminiKey, printed, exitCode, error, errorDetail, warnings >>

\* the answer arrives; a non-2xx status throws
Receive ==
    /\ UNCHANGED warnings
    /\ pc = "await"
    /\ opts.action # "analyze"
    /\ \E resp \in Responses :
         /\ response' = resp
         /\ IF resp.ok
            THEN pc' = "extract" /\ UNCHANGED << exitCode, error, errorDetail >>
            ELSE /\ Exit(1, "remote-error")
                 /\ errorDetail' = [ status |-> resp.status,
                                     excerpt |-> bodyExcerpt(resp.body) ]
    /\ UNCHANGED << opts, apiKey, prepared, payload, requests, outFile, img, norm,
                    geminiKey, printed >>

Extract_partial ==
    /\ pc = "extract"
    /\ LET png == extractPng(response.bytes)
       IN IF png.err = ""
          THEN pc' = "write" /\ UNCHANGED << exitCode, error, outFile >>
          ELSE /\ outFile' = [ t |-> "file", action |-> opts.action,
                               data |-> png.data ]
               /\ Exit(1, png.err)
    /\ UNCHANGED << opts, apiKey, prepared, payload, requests, response, img,
                    norm, geminiKey, printed, errorDetail, warnings >>

\* extractPng(zipBuffer)
Extract ==
    /\ UNCHANGED warnings
    /\ pc = "extract"
    /\ LET png == extractPng(response.bytes)
       IN IF png.err = "" THEN pc' = "write" /\ UNCHANGED << exitCode, error >>
          ELSE Exit(1, png.err)
    /\ UNCHANGED << opts, apiKey, RunVars, img, norm,
                    geminiKey, printed, errorDetail >>

\* fs.mkdir, fs.writeFile of pngData, return
Write ==
    /\ UNCHANGED warnings
    /\ pc = "write"
    /\ outFile' = [ t |-> "file", action |-> opts.action,
                    data |-> extractPng(response.bytes).data ]
    /\ Exit(0, "")
    /\ UNCHANGED << opts, apiKey, prepared, payload, requests, response, img, norm,
                    geminiKey, printed, errorDetail >>

\* createMask up to the mask it is about to save: the canvas size comes
\* from the source image when one is given, else from --width / --height
SynthesizeMask ==
    /\ UNCHANGED warnings
    /\ pc = "mask"
    /\ IF Truthy(opts.image) /\ ~Readable(opts.image)
       THEN Exit(1, "image-read") /\ UNCHANGED prepared
       ELSE LET w == IF Truthy(opts.image) THEN Num(Files[opts.image.s].w)
                     ELSE opts.width
                h == IF Truthy(opts.image) THEN Num(Files[opts.image.s].h)
                     ELSE opts.height
                res == createMask(opts, w, h)
            IN IF res.err # ""
               THEN Exit(1, res.err) /\ UNCHANGED prepared
               ELSE /\ prepared' = << res.mask >>
                    /\ pc' = "save"
                    /\ UNCHANGED << exitCode, error >>
    /\ UNCHANGED << opts, apiKey, payload, requests, response, outFile, img, norm,
                    geminiKey, printed, errorDetail >>

\* createMask: fs.mkdir, fs.writeFile of the mask, return
SaveMask ==
    /\ UNCHANGED warnings
    /\ pc = "save"
    /\ outFile' = [ t |-> "mask", w |-> prepared[1].w, h |-> prepared[1].h,
                    px |-> prepared[1].px ]
    /\ Exit(0, "")
    /\ UNCHANGED << opts, apiKey, prepared, payload, requests, response, img, norm,
                    geminiKey, printed, errorDetail >>

\* analyzeImage: read the image and its size, build the request
LoadAnalyze ==
    /\ UNCHANGED warnings
    /\ pc = "analyze"
    /\ IF Readable(opts.image)
       THEN /\ prepared' = << RawImage(opts.image) >>
            /\ payload' = [ image |-> RawImage(opts.image),
                            detect |-> OrElse(opts.detect,
                                Str("all body parts (face, hands, torso, legs)")) ]
            /\ pc' = "send"
            /\ UNCHANGED << exitCode, error >>
       ELSE Exit(1, "image-read") /\ UNCHANGED << prepared, payload >>
    /\ UNCHANGED << opts, apiKey, requests, response, outFile, img, norm,
                    geminiKey, printed, errorDetail >>

\* analyzeImage: the answer of the vision endpoint arrives; a non-2xx
\* status throws
ReceiveGemini ==
    /\ UNCHANGED warnings
    /\ pc = "await"
    /\ opts.action = "analyze"
    /\ \E resp \in GeminiResponses :
         /\ response' = resp
         /\ IF resp.ok
            THEN pc' = "detect" /\ UNCHANGED << exitCode, error, errorDetail >>
            ELSE /\ Exit(1, "remote-error")
                 /\ errorDetail' = [ status |-> resp.status,
                                     excerpt |-> bodyExcerpt(resp.body) ]
    /\ UNCHANGED << opts, apiKey, prepared, payload, requests, outFile, img, norm,
                    geminiKey, printed >>

\* analyzeImage from res.json() to its return: the text of the answer, the
\* detections, the translation loop and the printed regions
Detect ==
    /\ UNCHANGED warnings
    /\ pc = "detect"
    /\ IF ~response.json
       THEN Exit(1, "json-error") /\ UNCHANGED printed
       ELSE LET d == findDetections(response.text)
                out == translate(d.detections, Num(prepared[1].w),
                                 Num(prepared[1].h))
            IN IF d.threw THEN Exit(1, "json-error") /\ UNCHANGED printed
               ELSE IF ~d.found THEN Exit(0, "") /\ UNCHANGED printed
               ELSE /\ printed' = out.printed
                    /\ IF out.threw THEN Exit(1, "type-error") ELSE Exit(0, "")
    /\ UNCHANGED << opts, apiKey, RunVars, img, norm, geminiKey, errorDetail >>

Next ==
    \/ Dispatch
    \/ LoadAnalyze
    \/ ReceiveGemini
    \/ Detect
    \/ SynthesizeMask
    \/ SaveMask
    \/ PrepareRef
    \/ PrepareVibe
    \/ PrepareEnhance
    \/ PrepareInpaint
    \/ PrepareDirector
    \/ Build
    \/ Send
    \/ Receive
    \/ Extract
    \/ Write

Spec == Init /\ [][Next]_vars

\* ------------------------------------------------------------------------
\* The canvas normaliser on its own: every source size up to MaxDim
\* ------------------------------------------------------------------------
CanvasInit ==
    /\ opts = parseArgs(DefaultCl)
    /\ apiKey = TRUE
    /\ geminiKey = TRUE
    /\ RunInit
    /\ img \in [w : 1..MaxDim, h : 1..MaxDim]
    /\ norm = NULL

Normalize ==
    /\ UNCHANGED warnings
    /\ norm = NULL
    /\ norm' = prepareReferenceImage("img", img)
    /\ UNCHANGED << pc, opts, apiKey, RunVars, exitCode, error, img,
                    geminiKey, printed, errorDetail >>

SpecCanvas == CanvasInit /\ [][Normalize]_vars

\* ------------------------------------------------------------------------
\* Properties
\* ------------------------------------------------------------------------
\* a generation payload has been assembled
HasPayload == "parameters" \in DOMAIN payload
Params == payload.parameters

DirectorRefFields ==
    { "director_reference_images", "director_reference_descriptions",
      "director_reference_information_extracted",
      "director_reference_strength_values",
      "director_reference_secondary_strength_values" }

\* C1: in a payload built by buildGeneratePayload the director_reference_*
\* arrays are all present with length 1 when a reference image is supplied,
\* and none of them is present otherwise
C1_RefArraysLockstep ==
    (HasPayload /\ opts.action = "generate") =>
        LET present == DirectorRefFields \cap DOMAIN Params
        IN IF Truthy(opts.ref)
           THEN present = DirectorRefFields
                /\ \A f \in DirectorRefFields : Len(Params[f]) = 1
           ELSE present = {}

C1_Witness ==
    /\ HasPayload /\ opts.action = "generate" /\ Truthy(opts.ref)
    /\ Len(Params.director_reference_images) = 1

\* C2: in every generation payload the two copies of the prompt are
\* identical (input and v4_prompt.caption.base_caption), and so are the
\* two copies of the negative prompt
C2_PromptCopiesIdentical ==
    HasPayload =>
        /\ payload.input = Params.v4_prompt.caption.base_caption
        /\ Params.negative_prompt = Params.v4_negative_prompt.caption.base_caption

\* |w/h - c.w/c.h| compared exactly: |w*c.h - c.w*h| / (h*c.h)
AbsInt(x) == IF x < 0 THEN -x ELSE x
ExactNum(w, h, c) == AbsInt(w * c.h - c.w * h)
\* canvas i is strictly closer to w/h than canvas j, in exact arithmetic
ExactCloser(w, h, i, j) ==
    ExactNum(w, h, LARGE_RESOLUTIONS[i]) * LARGE_RESOLUTIONS[j].h
        < ExactNum(w, h, LARGE_RESOLUTIONS[j]) * LARGE_RESOLUTIONS[i].h
\* the canvas at the smallest exact distance, the first declared on ties
ExactNearest(w, h) ==
    LARGE_RESOLUTIONS[
        CHOOSE i \in 1..Len(LARGE_RESOLUTIONS) :
            /\ \A j \in 1..Len(LARGE_RESOLUTIONS) : ~ExactCloser(w, h, j, i)
            /\ \A j \in 1..(i-1) : ExactCloser(w, h, i, j) ]

\* C3: the canvas selected for a w x h image is the one whose aspect ratio
\* is nearest to w/h, and the first declared one when two are equally near
C3_NearestCanvasFirstOnTies ==
    (norm # NULL) => norm.canvas = ExactNearest(img.w, img.h).label

\* the reference and vibe images of the assembled payload
ReferenceImages ==
    LET P == Params
    IN (IF "director_reference_images" \in DOMAIN P
        THEN {P.director_reference_images[i] :
                 i \in DOMAIN P.director_reference_images} ELSE {})
       \cup
       (IF "reference_image_multiple" \in DOMAIN P
        THEN {P.reference_image_multiple[i] :
                 i \in DOMAIN P.reference_image_multiple} ELSE {})

\* C4: every reference or vibe image of a payload has exactly the width and
\* height of the canvas selected for it, one of the three canvases
C4_ReferenceImagesOnCanvas ==
    HasPayload =>
        \A im \in ReferenceImages :
            \E k \in 1..Len(LARGE_RESOLUTIONS) :
                /\ LARGE_RESOLUTIONS[k].label
                       = SelectCanvas(Files[im.src].w, Files[im.src].h).label
                /\ im.w = LARGE_RESOLUTIONS[k].w
                /\ im.h = LARGE_RESOLUTIONS[k].h

C4_Witness ==
    /\ HasPayload /\ opts.action = "vibe"
    /\ \E a, b \in ReferenceImages : a.w = 1472 /\ b.w = 1536 /\ b.h = 1024

\* C5: with auto-selection on and no mode forced, sm_dyn is true exactly
\* when width x height of the payload exceeds 1024 x 1024; otherwise sm and
\* sm_dyn are the caller's values
C5_AutoSmeaFollowsPayloadSize ==
    HasPayload =>
        IF opts.autoSmea /\ ~opts.smea /\ ~opts.smeaDyn
        THEN Params.sm_dyn = JGt(JMul(Params.width, Params.height), 1024 * 1024)
        ELSE Params.sm = opts.smea /\ Params.sm_dyn = opts.smeaDyn

\* C6: the enhancement payload takes its width and height from the decoded
\* source image: unchanged when upscale <= 1, multiplied by upscale when > 1
C6_EnhanceGeometry ==
    (HasPayload /\ opts.action = "enhance") =>
        LET f == Files[opts.image.s]
            u == opts.upscale
        IN /\ (IsNum(u) /\ u.n > 1000) =>
                /\ Params.width = Num((f.w * u.n) \div 1000)
                /\ Params.height = Num((f.h * u.n) \div 1000)
           /\ (IsNum(u) /\ u.n <= 1000) =>
                /\ Params.width = Num(f.w)
                /\ Params.height = Num(f.h)

C6_Witness ==
    /\ HasPayload /\ opts.action = "enhance"
    /\ opts.image = Str("a.png") /\ opts.upscale = Num(2000)
    /\ Params.width = Num(1664) /\ Params.height = Num(2432)

\* min(magnitude x 0.3, 0.3), in thousandths
MagnitudeNoise(m) ==
    IF ~IsNum(m) THEN NaN
    ELSE IF (m.n * 300) \div 1000 <= 300 THEN Num((m.n * 300) \div 1000)
    ELSE Num(300)

C8_VibeArrays ==
    (HasPayload /\ opts.action = "vibe") =>
        LET n == Len(opts.vibes)
        IN /\ Len(Params.reference_image_multiple) = n
           /\ Len(Params.reference_information_extracted_multiple) = n
           /\ Len(Params.reference_strength_multiple) = n
           /\ \A i \in 1..n :
                /\ Params.reference_strength_multiple[i] =
                       IF i <= Len(opts.vibeStrengths) THEN opts.vibeStrengths[i]
                       ELSE Num(600)
                /\ Params.reference_information_extracted_multiple[i] =
                       IF i <= Len(opts.vibeInfos) THEN opts.vibeInfos[i]
                       ELSE Num(1000)

C8_Witness ==
    /\ HasPayload /\ opts.action = "vibe"
    /\ Len(opts.vibes) = 1 /\ opts.vibeStrengths = <<Num(0), Num(800)>>
    /\ opts.vibeInfos = <<>>
    /\ Params.reference_strength_multiple = <<Num(0)>>
    /\ Params.reference_information_extracted_multiple = <<Num(1000)>>

\* the number of vibe images the help text allows
VIBE_LIMIT == 16

\* C9: a vibe request that is sent carries at most 16 vibe images
C9_AtMostSixteenVibes ==
    (requests > 0 /\ HasPayload /\ opts.action = "vibe") =>
        Len(Params.reference_image_multiple) <= VIBE_LIMIT

\* v is an integer in 0 .. 2^32 - 1
InRange32(v) ==
    \/ v.t = "num" /\ v.n >= 0
    \/ v.t = "big" /\ v.hi \in 32768..65535 /\ v.lo \in 0..65535

\* C10: seed is the caller's seed when one was supplied (0 included), and
\* an integer in 0 .. 2^32 - 1 otherwise
C10_Seed ==
    HasPayload =>
        IF opts.seed # NULL THEN Params.seed = opts.seed
        ELSE InRange32(Params.seed)

C10_Witness ==
    HasPayload /\ opts.seed = Num(0) /\ Params.seed = Num(0)

\* the numeric fields of the options record
NumericOptions ==
    { "strength", "fidelity", "infoExtracted", "magnitude", "enhanceStrength",
      "enhanceNoise", "upscale", "inpaintStrength", "defry", "emotionLevel",
      "width", "height", "scale", "steps", "seed", "cfgRescale" }

\* the scalar and array numeric fields of a request body
NumericFields ==
    { "width", "height", "scale", "steps", "seed", "cfg_rescale", "strength",
      "noise", "extra_noise_seed", "defry" }
NumericArrays ==
    { "director_reference_information_extracted",
      "director_reference_strength_values",
      "director_reference_secondary_strength_values",
      "reference_strength_multiple",
      "reference_information_extracted_multiple" }

\* a finite number or null
FiniteOrNull(v) == v.t \in {"num", "big", "null"}

\* no numeric field of the record b is NaN
NoNaN(b) ==
    /\ \A f \in NumericFields \cap DOMAIN b : b[f] # NaN
    /\ \A f \in NumericArrays \cap DOMAIN b :
           \A i \in DOMAIN b[f] : b[f][i] # NaN

\* C11: every numeric field of the options record is a finite number or
\* null, and no numeric field of a request body handed to the transport
\* client is NaN
C11_NoNaN ==
    /\ \A f \in NumericOptions : FiniteOrNull(opts[f])
    /\ \A i \in DOMAIN opts.vibeStrengths : FiniteOrNull(opts.vibeStrengths[i])
    /\ \A i \in DOMAIN opts.vibeInfos : FiniteOrNull(opts.vibeInfos[i])
    /\ (requests > 0 /\ payload # NULL) =>
           NoNaN(IF HasPayload THEN Params ELSE payload)

\* the canvas of a mask run: the size of the source image when one is given,
\* else --width x --height
MaskWidth == IF Truthy(opts.image) THEN Num(Files[opts.image.s].w) ELSE opts.width
MaskHeight == IF Truthy(opts.image) THEN Num(Files[opts.image.s].h) ELSE opts.height

\* a mask run has ended on a canvas that could be created
MaskRunEnded ==
    /\ opts.action = "mask" /\ ~opts.help /\ pc = "done"
    /\ Truthy(opts.image) => Readable(opts.image)
    /\ ValidSize(MaskWidth, MaskHeight)

\* the mask that was saved, as an image
SavedMask == [ w |-> outFile.w, h |-> outFile.h, px |-> outFile.px ]

Pixels(w, h) == (0..(w-1)) \X (0..(h-1))

\* C12: with no region and no inversion the saved mask has exactly the
\* width and height of the canvas and every pixel of it is white
C12_EmptyRegionsAllWhite ==
    (MaskRunEnded /\ Len(opts.regions) = 0 /\ ~opts.invertMask) =>
        /\ outFile.t = "mask"
        /\ outFile.w = MaskWidth.n /\ outFile.h = MaskHeight.n
        /\ DOMAIN outFile.px = Pixels(MaskWidth.n, MaskHeight.n)
        /\ \A p \in DOMAIN outFile.px : outFile.px[p] = WHITE

C12_Witness ==
    /\ MaskRunEnded /\ Len(opts.regions) = 0 /\ ~opts.invertMask
    /\ opts.width = Num(2) /\ opts.height = Num(3) /\ ~Truthy(opts.image)
    /\ outFile.t = "mask" /\ outFile.w = 2 /\ outFile.h = 3
    /\ outFile.px[<<1, 2>>] = WHITE

\* the pixel p lies inside the rectangle r = <<x, y, width, height>>
Inside(p, r) ==
    /\ p[1] >= r[1].n /\ p[1] < r[1].n + r[3].n
    /\ p[2] >= r[2].n /\ p[2] < r[2].n + r[4].n

\* every listed region is a rectangle inside the canvas
AllInBounds ==
    \A k \in DOMAIN opts.regions :
        opts.regions[k] \in InBounds(MaskWidth.n, MaskHeight.n)

Reverse(seq) == [k \in 1..Len(seq) |-> seq[Len(seq) + 1 - k]]

\* C13: with a non-empty list of in-bounds rectangles a pixel of the saved
\* mask is white exactly when it lies inside a listed rectangle (black
\* exactly then with inversion), whatever the order of the list
C13_WhiteInsideRegions ==
    (MaskRunEnded /\ Len(opts.regions) > 0 /\ AllInBounds) =>
        /\ outFile.t = "mask"
        /\ DOMAIN outFile.px = Pixels(MaskWidth.n, MaskHeight.n)
        /\ \A p \in DOMAIN outFile.px :
              outFile.px[p] =
                  IF (\E k \in DOMAIN opts.regions : Inside(p, opts.regions[k]))
                         # opts.invertMask
                  THEN WHITE ELSE BLACK
        /\ SavedMask =
              createMask([opts EXCEPT !.regions = Reverse(opts.regions)],
                         MaskWidth, MaskHeight).mask

C13_Witness ==
    /\ MaskRunEnded /\ ~opts.invertMask
    /\ opts.width = Num(3) /\ opts.height = Num(3)
    /\ opts.regions = << Region(0, 0, 2, 2), Region(1, 1, 2, 2) >>
    /\ outFile.t = "mask"
    /\ outFile.px[<<0, 0>>] = WHITE /\ outFile.px[<<2, 2>>] = WHITE
    /\ outFile.px[<<1, 1>>] = WHITE /\ outFile.px[<<2, 0>>] = BLACK

\* C14: the mask saved for the single rectangle 0,0,w,h on a w x h canvas
\* is the mask synthesized for an empty region list
C14_FullRectangleIsEmptyList ==
    (/\ MaskRunEnded /\ ~opts.invertMask
     /\ opts.regions = << Region(0, 0, MaskWidth.n, MaskHeight.n) >>) =>
        /\ outFile.t = "mask"
        /\ SavedMask =
              createMask([opts EXCEPT !.regions = <<>>], MaskWidth, MaskHeight).mask

C14_Witness ==
    /\ MaskRunEnded /\ ~opts.invertMask
    /\ opts.width = Num(3) /\ opts.height = Num(2)
    /\ opts.regions = << Region(0, 0, 3, 2) >>
    /\ outFile.t = "mask" /\ outFile.px[<<2, 1>>] = WHITE

BadExtent(regionStr) ==
    LET c == parseRegion(regionStr)
    IN \E i \in {3, 4} : IsNaN(c[i]) \/ (IsNum(c[i]) /\ c[i].n < 0)

\* C16: a mask run with a region whose width or height parses to NaN or is
\* negative fails with the invalid-region error and writes no mask file
C16_InvalidRegionError ==
    (MaskRunEnded /\ \E k \in DOMAIN opts.regions : BadExtent(opts.regions[k])) =>
        /\ exitCode = 1
        /\ error = "invalid-region"
        /\ outFile = NULL

\* an analyze run has ended after a 2xx answer whose body is a JSON document
AnalyzeRunEnded ==
    /\ opts.action = "analyze" /\ pc = "done"
    /\ response # NULL /\ response.ok /\ response.json

\* the detections of the answer: the items of the JSON array that is left
\* of its text once the fences are taken away, none in every other case
AnswerBatch ==
    LET t == response.text
        docs == IF t = UNDEF THEN <<>>
                ELSE SelectSeq(t.pieces, LAMBDA piece : piece.k # "fence")
    IN IF Len(docs) = 1 /\ docs[1].k = "json" /\ docs[1].v.t = "array"
       THEN docs[1].v.items ELSE <<>>

\* the size of the analysed image
CanvasWidth == Files[opts.image.s].w
CanvasHeight == Files[opts.image.s].h

\* det has a box of four numbers
BoxOk(det) ==
    /\ det.box_2d.t = "array" /\ Len(det.box_2d.items) = 4
    /\ \A i \in 1..4 : IsNum(det.box_2d.items[i])

\* det is well formed: a label, and a box [yMin, xMin, yMax, xMax] within
\* 0..1000 with yMin <= yMax and xMin <= xMax
WellFormed(det) ==
    /\ det.label.t = "str" /\ BoxOk(det)
    /\ \A i \in 1..4 : det.box_2d.items[i].n \in 0..1000
    /\ det.box_2d.items[1].n <= det.box_2d.items[3].n
    /\ det.box_2d.items[2].n <= det.box_2d.items[4].n

\* a / 1000 x size rounded to the nearest integer, halves away from zero
\* (a >= 0)
ExactPixels(a, size) == (2 * a * size + 1000) \div 2000

ExactRegion(det) ==
    LET b == det.box_2d.items
    IN [ x |-> Num(ExactPixels(b[2].n, CanvasWidth)),
         y |-> Num(ExactPixels(b[1].n, CanvasHeight)),
         w |-> Num(ExactPixels(b[4].n - b[2].n, CanvasWidth)),
         h |-> Num(ExactPixels(b[3].n - b[1].n, CanvasHeight)) ]

\* C17: a batch of well-formed detections is translated into one region
\* per detection, in input order, with x = round(xMin / 1000 x width),
\* y = round(yMin / 1000 x height), width = round((xMax - xMin) / 1000 x
\* width), height = round((yMax - yMin) / 1000 x height), halves rounded
\* away from zero and no margin added
C17_DetectionTranslation ==
    (/\ AnalyzeRunEnded /\ Len(AnswerBatch) > 0
     /\ \A k \in DOMAIN AnswerBatch : WellFormed(AnswerBatch[k])) =>
        /\ exitCode = 0
        /\ printed = [k \in 1..Len(AnswerBatch) |-> ExactRegion(AnswerBatch[k])]

\* the subsequence of the detections that have a box of four numbers
RECURSIVE Boxed(_)
Boxed(dets) ==
    IF Len(dets) = 0 THEN <<>>
    ELSE IF BoxOk(Head(dets)) THEN << Head(dets) >> \o Boxed(Tail(dets))
    ELSE Boxed(Tail(dets))

\* C18: in a batch of labelled detections those without a box of four
\* numbers are dropped, the run does not fail, and exactly the other
\* detections of the batch are translated, in order
C18_MalformedDetectionsDropped ==
    (/\ AnalyzeRunEnded /\ Len(AnswerBatch) > 0
     /\ \A k \in DOMAIN AnswerBatch : AnswerBatch[k].label.t = "str") =>
        /\ exitCode = 0
        /\ printed = [k \in 1..Len(Boxed(AnswerBatch)) |->
                         detectionRegion(Boxed(AnswerBatch)[k],
                                         Num(CanvasWidth), Num(CanvasHeight))]

C20_RemoteErrorNoRetry ==
    (opts.action # "analyze" /\ response # NULL /\ ~response.ok) =>
        /\ pc = "done" /\ exitCode = 1 /\ error = "remote-error"
        /\ errorDetail.status = response.status
        /\ errorDetail.excerpt <= 500
        /\ errorDetail.excerpt <= response.body
        /\ requests = 1
        /\ outFile = NULL

C20_Witness ==
    /\ opts.action = "director" /\ response # NULL /\ ~response.ok
    /\ response.status = 500 /\ response.body = 501
    /\ errorDetail = [status |-> 500, excerpt |-> 500]
    /\ exitCode = 1 /\ requests = 1 /\ outFile = NULL

\* the number of images the action loads or normalises before it builds
\* its request
ImagesNeeded ==
    CASE opts.action = "generate" -> IF Truthy(opts.ref) THEN 1 ELSE 0
      [] opts.action = "vibe" -> Len(opts.vibes)
      [] opts.action = "inpaint" -> 2
      [] OTHER -> 1

\* every image of the action is loaded and the request body is assembled
Assembled == payload # NULL /\ Len(prepared) = ImagesNeeded

\* C21: a run issues at most one outbound request, and none under the mask
\* action; the request leaves only once every image is normalised and the
\* payload is assembled, and neither changes afterwards
C21_OneRequestAfterAssembly ==
    /\ [](/\ requests <= 1
          /\ (opts.action = "mask" => requests = 0)
          /\ (requests = 1 => Assembled))
    /\ [][/\ (requests' # requests => Assembled /\ requests = 0)
          /\ (requests' = 1 => UNCHANGED << prepared, payload >>)]_vars

C21_Witness ==
    /\ opts.action = "vibe" /\ Len(opts.vibes) = 3 /\ Len(prepared) = 3
    /\ requests = 1 /\ pc = "done" /\ exitCode = 0

\* the actions served by the image-generation endpoint
GenerationActions == {"generate", "vibe", "enhance", "inpaint"}

\* the run received a 2xx answer whose body is an archive, and has ended
ArchiveAnswered ==
    /\ pc = "done" /\ opts.action # "analyze" /\ response # NULL
    /\ response.ok /\ response.bytes.t = "zip"

\* the positions of the entries of the answer whose name ends in ".png"
PngEntries ==
    { i \in 1..Len(response.bytes.entries) :
        LET name == response.bytes.entries[i].name
        IN name[Len(name)] = ".png" }

\* C22: after a 2xx answer of the generation endpoint, an archive without an
\* entry named *.png ends the run with the missing-image error, exit code 1
\* and no output file; an archive with one ends it with an output file whose
\* bytes are exactly the data of that entry (the first one, when several)
C22_UnwrapArchive ==
    (ArchiveAnswered /\ opts.action \in GenerationActions) =>
        IF PngEntries = {}
        THEN error = "missing-png" /\ exitCode = 1 /\ outFile = NULL
        ELSE /\ exitCode = 0 /\ outFile.t = "file"
             /\ \E i \in PngEntries :
                   /\ \A j \in 1..(i-1) : j \notin PngEntries
                   /\ outFile.data = response.bytes.entries[i].data

C22_Witness ==
    /\ ArchiveAnswered /\ opts.action = "generate"
    /\ Len(response.bytes.entries) = 3 /\ 1 \notin PngEntries
    /\ outFile.t = "file" /\ outFile.data = 11

\* the run has ended after a 2xx answer that holds no archive entry named
\* *.png: bytes that are no archive, or an archive without such an entry
NoImageEntryAnswered ==
    /\ pc = "done" /\ opts.action # "analyze" /\ response # NULL /\ response.ok
    /\ (response.bytes.t = "zip" => PngEntries = {})

\* C23: under the director action, a 2xx answer without an archive image
\* entry is written to the output file as it is, and the run succeeds
C23_DirectorRawFallback ==
    (NoImageEntryAnswered /\ opts.action = "director") =>
        /\ exitCode = 0
        /\ outFile.t = "file"
        /\ outFile.data = response.bytes

C25_WarningsAdvisory ==
    /\ [][/\ opts' = opts
          /\ (warnings' # warnings /\ pc' = "done") =>
                \/ opts.action = "vibe" /\ Len(opts.vibes) = 0
                \/ opts.action = "enhance" /\ ~Truthy(opts.image)
                \/ opts.action = "inpaint"
                   /\ (~Truthy(opts.image) \/ ~Truthy(opts.mask))]_vars
    /\ []((warnings # <<>> /\ HasPayload) =>
            /\ payload.input = opts.prompt
            /\ Params.v4_prompt.caption.base_caption = opts.prompt)

C25_Witness ==
    /\ Len(warnings) = 6 /\ HasPayload /\ payload.input = Str(LoudPrompt)
    /\ pc = "done" /\ exitCode = 0 /\ outFile.t = "file"

\* C26: the payload of a vibe run has normalize_reference_strength_multiple
\* false when --no-normalize-vibes was given, and true when it was not
C26_NoNormalizeVibes ==
    (HasPayload /\ opts.action = "vibe") =>
        Params.normalize_reference_strength_multiple = opts.normalizeVibes

\* C27: an enhance run without --magnitude, --enhance-strength and
\* --enhance-noise assembles the strength and the noise of --magnitude 0.5
C27_DefaultMagnitude ==
    ( /\ HasPayload /\ opts.action = "enhance"
      /\ opts.magnitude = NULL /\ opts.enhanceStrength = NULL
      /\ opts.enhanceNoise = NULL ) =>
        LET half == enhanceStrengthNoise([opts EXCEPT !.magnitude = Num(500)])
        IN /\ Params.strength = half.strength
           /\ Params.noise = half.noise

\* the images normalised so far by a generate or vibe run
Normalised ==
    IF opts.action \in {"generate", "vibe"}
    THEN { prepared[i] : i \in DOMAIN prepared } ELSE {}

\* the canvas of each source size on disk, whatever the run
CanvasOfSize(w, h) ==
    CASE w = 832 /\ h = 1216 -> "portrait"
      [] w = 1472 /\ h = 1472 -> "square"
      [] w = 1000 /\ h = 1200 -> "square"
      [] w = 1600 /\ h = 900 -> "landscape"

MissingInput ==
    LET a == opts.action
        no(v) == ~Truthy(v)
    IN \/ a \in {"generate", "vibe", "enhance", "inpaint", "director"} /\ ~apiKey
       \/ a = "director" /\ (no(opts.directorTool) \/ no(opts.image))
       \/ a \in {"generate", "vibe", "inpaint"} /\ no(opts.prompt)
       \/ a = "vibe" /\ Len(opts.vibes) = 0
       \/ a = "enhance" /\ no(opts.image)
       \/ a = "inpaint" /\ (no(opts.image) \/ no(opts.mask))
       \/ a = "analyze" /\ (no(opts.image) \/ ~geminiKey)

\* C29: a run (other than --help) whose action lacks a required input ends
\* at its first step with exit code 1, and at no point has it issued a
\* request or written an output file
C29_MissingInputFailsEarly ==
    (MissingInput /\ ~opts.help) =>
        /\ requests = 0 /\ outFile = NULL /\ payload = NULL /\ prepared = <<>>
        /\ pc # "start" => (pc = "done" /\ exitCode = 1)

C29_Witness ==
    /\ opts.action = "inpaint" /\ apiKey /\ Truthy(opts.prompt)
    /\ Truthy(opts.image) /\ ~Truthy(opts.mask)
    /\ pc = "done" /\ exitCode = 1 /\ error = "missing-image"

\* C30: every region printed for a batch of well-formed detections has
\* non-negative integer x, y, width and height, with x + width at most the
\* width of the analysed image and y + height at most its height
C30_RegionsInsideCanvas ==
    (/\ AnalyzeRunEnded /\ Len(AnswerBatch) > 0
     /\ \A k \in DOMAIN AnswerBatch : WellFormed(AnswerBatch[k])) =>
        /\ Len(printed) = Len(AnswerBatch)
        /\ \A k \in DOMAIN printed :
              LET r == printed[k]
              IN /\ IsNum(r.x) /\ IsNum(r.y) /\ IsNum(r.w) /\ IsNum(r.h)
                 /\ r.x.n >= 0 /\ r.y.n >= 0 /\ r.w.n >= 0 /\ r.h.n >= 0
                 /\ r.x.n + r.w.n <= CanvasWidth
                 /\ r.y.n + r.h.n <= CanvasHeight

====
